---- MODULE Spec2Model ----
(***************************************************************************)
(* Multi-tenant session lifecycle manager (WhatsappService).               *)
(*                                                                         *)
(* The service keeps three maps keyed by tenant id (clients, clientStates,  *)
(* qrCodes).  Every service method is an async function on Node's single   *)
(* thread: it runs without interruption until it waits for the driver, a   *)
(* timer or the QR encoder.  An await of a value that is already there     *)
(* (validateUser, cleanup, a returned promise) only yields to other        *)
(* microtasks, never to a request, a timer or a driver event, so such      *)
(* continuations belong to the same action.  The messaging driver          *)
(* (whatsapp-web.js Client) is the environment: it emits qr / ready /      *)
(* auth_failure / disconnected on a handle and settles the promises        *)
(* returned by initialize(), destroy() and logout().                       *)
(***************************************************************************)
EXTENDS Integers, FiniteSets, Sequences, TLC

(* ---------------------------- bounds ----------------------------------- *)
MaxHandles == 2       \* driver handles that createClient may construct
MaxCalls == 2         \* service calls in flight at the same time
MaxDestroyCalls == 2  \* destroy() calls counted per handle (saturating)
MaxCommands == 3      \* service calls issued in one run

(* --------------------------- constants --------------------------------- *)
Tenants == {1}        \* tenant ids that arrive in requests

NoClient == 0         \* Map.get miss on clients
Undefined == "undefined"   \* Map.get miss on clientStates / qrCodes
Null == "null"        \* qrCodes entry explicitly set to null

CONNECTED == "CONNECTED"
PENDING == "PENDING"
DISCONNECTED == "DISCONNECTED"
INITIALIZING == "INITIALIZING"
STATES == {CONNECTED, PENDING, DISCONNECTED, INITIALIZING}

Handles == 1..MaxHandles
Calls == 1..MaxCalls

VARIABLES
  clients,        \* tenant -> handle or NoClient
  clientStates,   \* tenant -> state or Undefined
  qrCodes,        \* tenant -> data url, Null, or Undefined (no entry)
  sessionFiles,   \* tenant -> durable login data exists under SESSION_DIR
  created,        \* number of handles constructed so far
  handles,        \* handle -> [user, driver, destroyCalls]
  pendingQr,      \* handles whose qr handler is suspended in qrcode.toDataURL
  issued,         \* number of service calls issued so far
  calls,          \* call slot -> [op, user, pc, client, phase]
  users,          \* ids present in the users store (data/users.json)
  last,           \* the call that settled in the step just taken, or Quiet
  outbound,       \* the send-bulk / send-bulk-image / send-file request served
  numbersString,  \* processPhoneNumbers: its argument, as a sequence of characters
  phoneNumbers,   \* processPhoneNumbers: the list it returned
  msg,            \* getGroupMessages: the fetched message being mapped
  mediaOptions,   \* getGroupMessages: the inclusion flags of the request
  mapped,         \* getGroupMessages: the element of mappedMessages
  tempFile,       \* the file createTemporaryMediaUrl wrote under uploads/temp
  dispatches,     \* request slot -> a bulk request of one tenant, or NoRequest
  delivery        \* the sendMessage / sendFile call on one connected client

vars == <<clients, clientStates, qrCodes, sessionFiles, created, handles,
          pendingQr, issued, calls, users, last, outbound, numbersString,
          phoneNumbers, msg, mediaOptions, mapped, tempFile, dispatches,
          delivery>>

\* the session registry, its handles and the calls on it
sessionVars == <<clients, clientStates, qrCodes, sessionFiles, created, handles,
                 pendingQr, issued, calls, users, last>>

\* the recipient normalizer
numberVars == <<numbersString, phoneNumbers>>

\* the inbound message mapper
messageVars == <<msg, mediaOptions, mapped, tempFile>>

\* overlapping bulk requests and the single send
sendVars == <<dispatches, delivery>>

\* everything the session operations never touch
messagingVars == <<outbound, numberVars, messageVars, sendVars>>

registry == <<clients, clientStates, qrCodes>>

Idle == [op |-> "idle", user |-> 0, pc |-> "idle", client |-> NoClient, phase |-> 0]

Min(a, b) == IF a < b THEN a ELSE b

(* ------------------------- pure helpers -------------------------------- *)

\* validateUser: usersService.findOne(Number(userId)) yields a user
validateUser(t) == t \in users

\* client.destroy() is invoked on handle h: its browser goes down and it
\* emits no further events
Destroy(hs, h) ==
  [hs EXCEPT ![h].destroyCalls = Min(@ + 1, MaxDestroyCalls),
             ![h].driver = "closed"]

\* cleanup: destroy the registered client if any, then drop all three entries
CleanupHandles(hs, cl, t) ==
  IF cl[t] # NoClient THEN Destroy(hs, cl[t]) ELSE hs
CleanupClients(cl, t) == [cl EXCEPT ![t] = NoClient]
CleanupQr(qr, t) == [qr EXCEPT ![t] = Undefined]
CleanupStates(st, t) == [st EXCEPT ![t] = Undefined]

\* getClientStatus, given whether client.getState() answers
GetClientStatus(t, getStateOk) ==
  IF clients[t] = NoClient THEN "NOT_FOUND"
  ELSE IF clientStates[t] = Undefined THEN "UNKNOWN"
  ELSE IF clientStates[t] = PENDING THEN PENDING
  ELSE IF clientStates[t] = CONNECTED
       THEN (IF getStateOk THEN CONNECTED ELSE "ERROR")
  ELSE clientStates[t]

\* getQrCode
getQrCode(t) == IF qrCodes[t] # Undefined THEN qrCodes[t] ELSE Null

\* a handle whose browser is running can emit events
Live(h) == h <= created /\ handles[h].driver \in {"launching", "ready"}

\* the lowest idle call slot takes the next request
FreeSlot(c) ==
  /\ issued < MaxCommands
  /\ issued' = issued + 1
  /\ UNCHANGED users
  /\ calls[c].op = "idle"
  /\ \A d \in Calls : d < c => calls[d].op # "idle"

\* the data url that qrcode.toDataURL renders for the code of handle h
QrUrl(h) == "qr" \o ToString(h)

\* a call of op for tenant t settled in action act: it returned or threw ret;
\* h is the handle and st the state it found registered for the tenant
Did(act, op, t, ret, h, st) ==
  [act |-> act, op |-> op, user |-> t, ret |-> ret, client |-> h, state |-> st]

\* the step just taken settled no call
Quiet == Did("", "", 0, "", NoClient, "")

NewCall(op, t) ==
  [op |-> op, user |-> t, pc |-> "start", client |-> NoClient, phase |-> 0]

\* no send request is being served
NoRequest == [kind |-> "none"]

\* bulk requests of one tenant that the server handles at the same time
MaxLoops == 2
Loops == 1..MaxLoops
NoDispatches == [k \in Loops |-> NoRequest]

\* no sendMessage / sendFile call
NoDelivery == [op |-> "none"]

\* no message is being mapped
NoMessage == [type |-> "none", hasMedia |-> FALSE]

\* media: null
NoMedia == [hasMedia |-> FALSE, type |-> "null"]

\* no element of mappedMessages is being built
Unmapped == [pc |-> "none", type |-> "none", media |-> NoMedia]

\* nothing written under uploads/temp; answer is what the latest GET on the
\* media url got at the file's present age
NoFile == [stored |-> FALSE, age |-> 0, answer |-> "none"]

\* a request without mediaOptions
NoOptions == [includeMedia |-> FALSE, includeImages |-> FALSE,
              includeVideos |-> FALSE, includeAudio |-> FALSE]

(* ----------------------------- Init ------------------------------------ *)
\* the service after construction: empty maps, no call in progress
InitSessions ==
  /\ clients = [t \in Tenants |-> NoClient]
  /\ clientStates = [t \in Tenants |-> Undefined]
  /\ qrCodes = [t \in Tenants |-> Undefined]
  /\ sessionFiles \in [Tenants -> BOOLEAN]
  /\ created = 0
  /\ handles = [h \in Handles |->
       [user |-> 0, driver |-> "none", destroyCalls |-> 0]]
  /\ pendingQr = {}
  /\ issued = 0
  /\ calls = [c \in Calls |-> Idle]
  /\ users \in SUBSET Tenants
  /\ last = Quiet

Init ==
  /\ InitSessions
  /\ outbound = NoRequest
  /\ dispatches = NoDispatches
  /\ delivery = NoDelivery
  /\ numbersString = ""
  /\ phoneNumbers = <<>>
  /\ msg = NoMessage
  /\ mediaOptions = NoOptions
  /\ mapped = Unmapped
  /\ tempFile = NoFile

(* ----------------------- shared code paths ----------------------------- *)
\* Each takes the registry <<cl, st, qr>> and the handles hs as the code
\* running before it in the same step left them.

\* the call in slot c settles with result ret
Settle(c, r, act, ret, h) ==
  /\ calls' = [calls EXCEPT ![c] = Idle]
  /\ last' = Did(act, r.op, r.user, ret, h, clientStates[r.user])

\* the call in slot c goes on as record r2
Continue(c, r2) ==
  /\ calls' = [calls EXCEPT ![c] = r2]
  /\ last' = Quiet

\* a reuse test that forgot the PENDING case
InitializeReusesConnectedOnly(cl, st, t) ==
  cl[t] # NoClient /\ st[t] = CONNECTED

\* a reuse test that takes any registered handle, whatever the state
InitializeReusesAnyRecord(cl, st, t) == cl[t] # NoClient

\* initialize answers from the existing record instead of connecting
InitializeReuses(cl, st, t) ==
  cl[t] # NoClient /\ st[t] \in {PENDING, CONNECTED}

\* initialize: validate the user; reuse the record, or mark INITIALIZING,
\* createClient, register the handlers and start client.initialize().
\* (ensureClientInitialized, restartSession and reinitialize only get here
\* with no handle registered or with the state just set to DISCONNECTED, so
\* the reuse return is always the return of an initialize request.)
InitializeBody(c, r, act, cl, st, qr, hs) ==
  LET t == r.user
      h == created + 1
  IN
  /\ qrCodes' = qr
  /\ IF ~validateUser(t)
     THEN /\ Settle(c, r, act, "BAD_REQUEST", NoClient)
          /\ clients' = cl /\ clientStates' = st /\ handles' = hs
          /\ UNCHANGED <<created, sessionFiles>>
     ELSE IF InitializeReuses(cl, st, t)
     THEN /\ Settle(c, r, act, IF st[t] = PENDING THEN qr[t] ELSE Null, NoClient)
          /\ clients' = cl /\ clientStates' = st /\ handles' = hs
          /\ UNCHANGED <<created, sessionFiles>>
     ELSE /\ created < MaxHandles
          /\ clientStates' = [st EXCEPT ![t] = INITIALIZING]
          /\ clients' = [cl EXCEPT ![t] = h]
          /\ created' = h
          /\ handles' = [hs EXCEPT ![h] =
               [user |-> t, driver |-> "launching", destroyCalls |-> 0]]
          /\ sessionFiles' = [sessionFiles EXCEPT ![t] = TRUE]
          /\ Continue(c, [r EXCEPT !.pc = "init_connect", !.client = h])

\* stopSession up to `await client.destroy()`
StopSync(c, r, act, cl, hs) ==
  LET t == r.user IN
  IF cl[t] = NoClient
  THEN /\ Settle(c, r, act, "NOT_FOUND", NoClient)
       /\ handles' = hs
  ELSE /\ handles' = Destroy(hs, cl[t])
       /\ Continue(c, [r EXCEPT !.pc = "stop_await", !.client = cl[t]])

\* a timeout that never evicts
TimeoutNeverEvicts(state) == FALSE

\* a timeout that evicts whatever the state
TimeoutAlwaysEvicts(state) == TRUE

\* waitForClientReady: on timeout the record is evicted unless it is PENDING
TimeoutEvicts(state) == state # PENDING

\* a check() that goes on waiting for a handle that is gone
MissingClientOverlooked(client) == FALSE

\* waitForClientReady: `if (!client)`
MissingClient(client) == client = NoClient

\* a check() that goes on waiting on a disconnected record
DisconnectedOverlooked(state) == FALSE

\* waitForClientReady: `if (state === this.STATES.DISCONNECTED)`
SeesDisconnected(state) == state = DISCONNECTED

\* a check() whose time budget never runs out
NeverTimedOut(elapsed) == FALSE

\* waitForClientReady: `if (elapsed > this.TIMEOUT_SECONDS)`
TimedOut(elapsed) == elapsed

\* waitForClientReady: one run of check(), with cl the clients map as the
\* code running before it in the same step left it
Check(c, r, elapsed, act, cl) ==
  LET t == r.user
      client == cl[t]
      state == clientStates[t]
      evict == /\ clients' = CleanupClients(cl, t)
               /\ clientStates' = CleanupStates(clientStates, t)
               /\ qrCodes' = CleanupQr(qrCodes, t)
               /\ handles' = CleanupHandles(handles, cl, t)
      keep == /\ clients' = cl
              /\ UNCHANGED <<clientStates, qrCodes, handles>>
  IN
  /\ IF TimedOut(elapsed)
     THEN /\ IF TimeoutEvicts(state) THEN evict ELSE keep
          /\ Settle(c, r, act, "TIMEOUT", client)
     ELSE IF MissingClient(client)
     THEN /\ keep
          /\ Settle(c, r, act, "NOT_FOUND", NoClient)
     ELSE IF SeesDisconnected(state)
     THEN /\ evict
          /\ Settle(c, r, act, "UNAVAILABLE", client)
     ELSE IF state = CONNECTED
     THEN /\ keep
          /\ Settle(c, r, act, "client", client)
     ELSE \* setTimeout(check, 1000)
          /\ keep
          /\ calls' = [calls EXCEPT ![c] = [r EXCEPT !.pc = "wait_poll"]]
          /\ last' = Did(act, r.op, t, "WAIT", client, state)
  /\ UNCHANGED <<sessionFiles, created>>

\* an early return that also hands out a handle still INITIALIZING
EnsureReturnsEarlyOnInitializing(state) == state \in {PENDING, INITIALIZING}

\* ensureClientInitialized: `if (state === this.STATES.PENDING) return client`
EnsureReturnsEarly(state) == state = PENDING

\* ensureClientInitialized from `const client = this.clients.get(userId)` on
EnsureBody(c, r, act, cl) ==
  LET t == r.user IN
  IF EnsureReturnsEarly(clientStates[t])
  THEN /\ Settle(c, r, act, "client", cl[t])
       /\ clients' = cl
       /\ UNCHANGED <<clientStates, qrCodes, sessionFiles, created, handles>>
  ELSE IF clientStates[t] = DISCONNECTED
  THEN InitializeBody(c, [r EXCEPT !.phase = 2], act,
                      CleanupClients(cl, t),
                      CleanupStates(clientStates, t),
                      CleanupQr(qrCodes, t),
                      CleanupHandles(handles, cl, t))
  ELSE Check(c, r, FALSE, act, cl)

\* setupClient registered the handle (cl) and initialize returned v:
\* ensureClientInitialized goes on after its await, any other caller returns
AfterInitialize(c, r, act, v, cl) ==
  IF r.op = "ensureClientInitialized"
  THEN IF r.phase = 1 THEN EnsureBody(c, r, act, cl)
                      ELSE Check(c, r, FALSE, act, cl)
  ELSE /\ Settle(c, r, act, v, NoClient)
       /\ clients' = cl
       /\ UNCHANGED <<clientStates, qrCodes, sessionFiles, created, handles>>

\* reinitialize: `if (this.qrCodes.has(userId))`
ReinitForcesLogout(qr, t) == qr[t] # Undefined

\* reinitialize after the optional logout/cleanup block
ReinitTail(c, r, act, cl, st, qr, hs) ==
  LET t == r.user IN
  IF st[t] = CONNECTED
  THEN /\ Settle(c, r, act, Null, cl[t])
       /\ clients' = cl /\ clientStates' = st /\ qrCodes' = qr
       /\ handles' = hs
       /\ UNCHANGED <<created, sessionFiles>>
  ELSE IF cl[t] # NoClient
  THEN /\ StopSync(c, r, act, cl, hs)
       /\ clients' = cl /\ clientStates' = st /\ qrCodes' = qr
       /\ UNCHANGED <<created, sessionFiles>>
  ELSE InitializeBody(c, r, act, cl, st, qr, hs)

(* --------------------------- initialize -------------------------------- *)

InitializeCall(c, t) ==
  /\ FreeSlot(c)
  /\ InitializeBody(c, NewCall("initialize", t), "InitializeCall",
                    clients, clientStates, qrCodes, handles)
  /\ UNCHANGED pendingQr
  /\ UNCHANGED messagingVars

\* setupClient: client.initialize() won the race; the handle is registered
\* and initialize returns the stored code
InitializeConnected(c) ==
  LET r == calls[c]
      t == r.user
  IN
  /\ r.pc = "init_connect"
  /\ AfterInitialize(c, r, "InitializeConnected", qrCodes[t],
                     [clients EXCEPT ![t] = r.client])
  /\ UNCHANGED <<pendingQr, issued, users>>
  /\ UNCHANGED messagingVars

\* setupClient: client.initialize() rejected or the 60 s timer won the race;
\* setupClient's catch and then initialize's catch run cleanup, initialize
\* throws 500
InitializeFailed(c) ==
  LET r == calls[c]
      t == r.user
  IN
  /\ r.pc = "init_connect"
  /\ clients' = CleanupClients(clients, t)
  /\ clientStates' = CleanupStates(clientStates, t)
  /\ qrCodes' = CleanupQr(qrCodes, t)
  /\ handles' = CleanupHandles(handles, clients, t)
  /\ Settle(c, r, "InitializeFailed", "INTERNAL_SERVER_ERROR", clients[t])
  /\ UNCHANGED <<sessionFiles, created, pendingQr, issued, users>>
  /\ UNCHANGED messagingVars

(* ------------------- stop / restart / delete --------------------------- *)

StopSessionCall(c, t) ==
  /\ FreeSlot(c)
  /\ StopSync(c, NewCall("stopSession", t), "StopSessionCall", clients, handles)
  /\ UNCHANGED <<clients, clientStates, qrCodes, sessionFiles, created,
                 pendingQr>>
  /\ UNCHANGED messagingVars

RestartSessionCall(c, t) ==
  /\ FreeSlot(c)
  /\ StopSync(c, NewCall("restartSession", t), "RestartSessionCall", clients,
              handles)
  /\ UNCHANGED <<clients, clientStates, qrCodes, sessionFiles, created,
                 pendingQr>>
  /\ UNCHANGED messagingVars

\* stopSession after `await client.destroy()` resolved; restartSession and
\* reinitialize go on into initialize
StopResume(c) ==
  LET r == calls[c]
      t == r.user
      st == [clientStates EXCEPT ![t] = DISCONNECTED]
  IN
  /\ r.pc = "stop_await"
  /\ IF r.op \in {"restartSession", "reinitialize"}
     THEN InitializeBody(c, r, "StopResume", clients, st, qrCodes, handles)
     ELSE /\ clientStates' = st
          /\ calls' = [calls EXCEPT ![c] = Idle]
          /\ last' = IF r.op = "stopSession"
                     THEN Did("StopResume", r.op, t, "ok", r.client, clientStates[t])
                     ELSE Quiet
          /\ UNCHANGED <<clients, qrCodes, sessionFiles, created, handles>>
  /\ UNCHANGED <<pendingQr, issued, users>>
  /\ UNCHANGED messagingVars

\* `await client.destroy()` rejected: stopSession throws
StopDestroyFails(c) ==
  LET r == calls[c]
      t == r.user
  IN
  /\ r.pc = "stop_await"
  /\ calls' = [calls EXCEPT ![c] = Idle]
  /\ last' = IF r.op # "deleteSession"
             THEN Did("StopDestroyFails", r.op, t, "ERROR", r.client,
                      clientStates[t])
             ELSE Quiet
  /\ UNCHANGED <<clients, clientStates, qrCodes, sessionFiles, created,
                 handles, pendingQr, issued, users>>
  /\ UNCHANGED messagingVars

\* a delete that leaves the session directory in place
RmSessionFilesSkipped(sf, t) == sf

\* fs.rmSync(session-<userId>)
RmSessionFiles(sf, t) == [sf EXCEPT ![t] = FALSE]

\* deleteSession: stopSession is started but not awaited, the session
\* directory is removed, and the call returns
DeleteSessionCall(c, t) ==
  LET r == NewCall("deleteSession", t) IN
  /\ FreeSlot(c)
  /\ IF clients[t] = NoClient
     THEN /\ calls' = calls
          /\ handles' = handles
     ELSE /\ calls' = [calls EXCEPT ![c] =
               [r EXCEPT !.pc = "stop_await", !.client = clients[t]]]
          /\ handles' = Destroy(handles, clients[t])
  /\ sessionFiles' = RmSessionFiles(sessionFiles, t)
  /\ last' = Did("DeleteSessionCall", "deleteSession", t, "ok", clients[t],
                 clientStates[t])
  /\ UNCHANGED <<clients, clientStates, qrCodes, created, pendingQr>>
  /\ UNCHANGED messagingVars

(* --------------------------- reinitialize ------------------------------ *)

ReinitializeCall(c, t) ==
  LET r == NewCall("reinitialize", t) IN
  /\ FreeSlot(c)
  /\ IF ReinitForcesLogout(qrCodes, t)
     THEN IF clients[t] # NoClient
          THEN \* `await client.logout()`; phase 1 marks a call that found
               \* the record PENDING
               /\ Continue(c, [r EXCEPT !.pc = "reinit_logout",
                                        !.client = clients[t],
                                        !.phase = IF clientStates[t] = PENDING
                                                  THEN 1 ELSE 0])
               /\ UNCHANGED <<clients, clientStates, qrCodes, handles,
                              created, sessionFiles>>
          ELSE ReinitTail(c, r, "ReinitializeCall",
                          CleanupClients(clients, t),
                          CleanupStates(clientStates, t),
                          CleanupQr(qrCodes, t),
                          CleanupHandles(handles, clients, t))
     ELSE ReinitTail(c, r, "ReinitializeCall", clients, clientStates, qrCodes,
                     handles)
  /\ UNCHANGED pendingQr
  /\ UNCHANGED messagingVars

\* logout() resolved: cleanup, then the rest of reinitialize
ReinitLogoutDone(c) ==
  LET r == calls[c]
      t == r.user
  IN
  /\ r.pc = "reinit_logout"
  /\ ReinitTail(c, r, "ReinitLogoutDone",
                CleanupClients(clients, t),
                CleanupStates(clientStates, t),
                CleanupQr(qrCodes, t),
                CleanupHandles(handles, clients, t))
  /\ UNCHANGED <<pendingQr, issued, users>>
  /\ UNCHANGED messagingVars

\* logout() rejected: reinitialize throws
ReinitLogoutFails(c) ==
  LET r == calls[c] IN
  /\ r.pc = "reinit_logout"
  /\ Settle(c, r, "ReinitLogoutFails", "ERROR", r.client)
  /\ UNCHANGED <<clients, clientStates, qrCodes, sessionFiles, created,
                 handles, pendingQr, issued, users>>
  /\ UNCHANGED messagingVars

(* --------------------- ensureClientInitialized ------------------------- *)

EnsureClientInitializedCall(c, t) ==
  LET r == NewCall("ensureClientInitialized", t) IN
  /\ FreeSlot(c)
  /\ IF clients[t] = NoClient
     THEN InitializeBody(c, [r EXCEPT !.phase = 1],
                         "EnsureClientInitializedCall",
                         clients, clientStates, qrCodes, handles)
     ELSE EnsureBody(c, r, "EnsureClientInitializedCall", clients)
  /\ UNCHANGED pendingQr
  /\ UNCHANGED messagingVars

\* setTimeout(check, 1000) fired within the budget
WaitPoll(c) ==
  /\ calls[c].pc = "wait_poll"
  /\ Check(c, calls[c], FALSE, "WaitPoll", clients)
  /\ UNCHANGED <<pendingQr, issued, users>>
  /\ UNCHANGED messagingVars

\* setTimeout(check, 1000) fired with elapsed > TIMEOUT_SECONDS
WaitTimeout(c) ==
  /\ calls[c].pc = "wait_poll"
  /\ Check(c, calls[c], TRUE, "WaitTimeout", clients)
  /\ UNCHANGED <<pendingQr, issued, users>>
  /\ UNCHANGED messagingVars

(* ----------------------------- driver ---------------------------------- *)

\* 'qr' handler up to `await qrcode.toDataURL(qr)`
DriverQr(h) ==
  /\ h <= created /\ handles[h].driver = "launching"
  /\ h \notin pendingQr
  /\ pendingQr' = pendingQr \cup {h}
  /\ last' = Quiet
  /\ UNCHANGED <<clients, clientStates, qrCodes, sessionFiles, created,
                 handles, issued, users, calls>>
  /\ UNCHANGED messagingVars

\* 'qr' handler after toDataURL: store the url, state PENDING
QrGenerated(h) ==
  LET t == handles[h].user IN
  /\ h \in pendingQr
  /\ pendingQr' = pendingQr \ {h}
  /\ qrCodes' = [qrCodes EXCEPT ![t] = QrUrl(h)]
  /\ clientStates' = [clientStates EXCEPT ![t] = PENDING]
  /\ last' = Quiet
  /\ UNCHANGED <<clients, sessionFiles, created, handles, issued, users, calls>>
  /\ UNCHANGED messagingVars

\* 'qr' handler: toDataURL threw, the error is logged
QrFailed(h) ==
  /\ h \in pendingQr
  /\ pendingQr' = pendingQr \ {h}
  /\ last' = Quiet
  /\ UNCHANGED <<clients, clientStates, qrCodes, sessionFiles, created,
                 handles, issued, users, calls>>
  /\ UNCHANGED messagingVars

\* 'ready' handler
DriverReady(h) ==
  LET t == handles[h].user IN
  /\ h <= created /\ handles[h].driver = "launching"
  /\ handles' = [handles EXCEPT ![h].driver = "ready"]
  /\ qrCodes' = [qrCodes EXCEPT ![t] = Null]
  /\ clientStates' = [clientStates EXCEPT ![t] = CONNECTED]
  /\ last' = Quiet
  /\ UNCHANGED <<clients, sessionFiles, created, pendingQr, issued, users, calls>>
  /\ UNCHANGED messagingVars

\* 'auth_failure' handler: cleanup
DriverAuthFailure(h) ==
  LET t == handles[h].user IN
  /\ h <= created /\ handles[h].driver = "launching"
  /\ handles' = CleanupHandles([handles EXCEPT ![h].driver = "ended"],
                               clients, t)
  /\ clients' = CleanupClients(clients, t)
  /\ clientStates' = CleanupStates(clientStates, t)
  /\ qrCodes' = CleanupQr(qrCodes, t)
  /\ last' = Did("DriverAuthFailure", "", t, "", clients[t], clientStates[t])
  /\ UNCHANGED <<sessionFiles, created, pendingQr, issued, users, calls>>
  /\ UNCHANGED messagingVars

\* 'disconnected' handler
DriverDisconnected(h) ==
  LET t == handles[h].user IN
  /\ Live(h)
  /\ handles' = [handles EXCEPT ![h].driver = "ended"]
  /\ clientStates' = [clientStates EXCEPT ![t] = DISCONNECTED]
  /\ last' = Quiet
  /\ UNCHANGED <<clients, qrCodes, sessionFiles, created, pendingQr, issued, users,
                 calls>>
  /\ UNCHANGED messagingVars

(* ------------------------------ Next ----------------------------------- *)
Next ==
  \/ \E c \in Calls, t \in Tenants : InitializeCall(c, t)
  \/ \E c \in Calls : InitializeConnected(c)
  \/ \E c \in Calls : InitializeFailed(c)
  \/ \E c \in Calls, t \in Tenants : StopSessionCall(c, t)
  \/ \E c \in Calls, t \in Tenants : RestartSessionCall(c, t)
  \/ \E c \in Calls : StopResume(c)
  \/ \E c \in Calls : StopDestroyFails(c)
  \/ \E c \in Calls, t \in Tenants : DeleteSessionCall(c, t)
  \/ \E c \in Calls, t \in Tenants : ReinitializeCall(c, t)
  \/ \E c \in Calls : ReinitLogoutDone(c)
  \/ \E c \in Calls : ReinitLogoutFails(c)
  \/ \E c \in Calls, t \in Tenants : EnsureClientInitializedCall(c, t)
  \/ \E c \in Calls : WaitPoll(c)
  \/ \E c \in Calls : WaitTimeout(c)
  \/ \E h \in Handles : DriverQr(h)
  \/ \E h \in Handles : QrGenerated(h)
  \/ \E h \in Handles : QrFailed(h)
  \/ \E h \in Handles : DriverReady(h)
  \/ \E h \in Handles : DriverAuthFailure(h)
  \/ \E h \in Handles : DriverDisconnected(h)

Spec == Init /\ [][Next]_vars

TypeOK ==
  /\ clients \in [Tenants -> Handles \cup {NoClient}]
  /\ clientStates \in [Tenants -> STATES \cup {Undefined}]
  /\ qrCodes \in [Tenants -> {QrUrl(h) : h \in Handles} \cup {Null, Undefined}]
  /\ sessionFiles \in [Tenants -> BOOLEAN]
  /\ created \in 0..MaxHandles
  /\ pendingQr \subseteq Handles
  /\ issued \in 0..MaxCommands
  /\ users \subseteq Tenants

(* ------------------------- step predicates ----------------------------- *)

\* this step is the arrival of a call of op for tenant t
Invoked(op, t) ==
  /\ issued' = issued + 1
  /\ \/ last'.op = op /\ last'.user = t
     \/ \E c \in Calls : /\ calls[c].op = "idle"
                         /\ calls'[c].op = op
                         /\ calls'[c].user = t

\* this step runs code of a stopSession call for tenant t
StopSessionStep(t) ==
  \/ Invoked("stopSession", t)
  \/ \E c \in Calls : /\ calls[c].op = "stopSession"
                      /\ calls[c].user = t
                      /\ calls'[c] # calls[c]

\* calls of op in flight for tenant t
InFlight(op, t) == {c \in Calls : calls[c].op = op /\ calls[c].user = t}

\* handles constructed for tenant t
HandlesOf(t) == {h \in Handles : h <= created /\ handles[h].user = t}

NoRecord(t) ==
  /\ clients[t] = NoClient
  /\ clientStates[t] = Undefined
  /\ qrCodes[t] = Undefined

(* ------------------------------ claims --------------------------------- *)

\* C1: when initialize is invoked concurrently for a tenant that had no
\* session record, exactly one driver handle is created: the later caller
\* finds the INITIALIZING record and constructs no second handle.  (With two
\* calls issued in all, both initialize calls still waiting for the driver,
\* the tenant was unseen when the first one arrived.)
C1_ConcurrentInitializeCreatesOneHandle ==
  \A t \in Tenants :
    (issued = 2 /\ Cardinality(InFlight("initialize", t)) = 2)
      => Cardinality(HandlesOf(t)) = 1

\* C2: a tenant whose state is CONNECTED always has a handle registered.
C2_ConnectedHasHandle ==
  \A t \in Tenants : clientStates[t] = CONNECTED => clients[t] # NoClient

\* C3: a login artifact is stored only while the state is PENDING.
C3_ArtifactOnlyWhilePending ==
  \A t \in Tenants :
    qrCodes[t] \notin {Undefined, Null} => clientStates[t] = PENDING

\* C4: destroy is invoked at most once on any handle.
C4_DestroyAtMostOnce ==
  \A h \in Handles : handles[h].destroyCalls <= 1

\* C5: no handle leaks: a handle that is not the one registered for its
\* tenant, or whose tenant is DISCONNECTED, has had destroy invoked on it.
C5_NoHandleLeak ==
  \A t \in Tenants : \A h \in HandlesOf(t) :
    (clients[t] # h \/ clientStates[t] = DISCONNECTED)
      => handles[h].destroyCalls >= 1

\* C6: initialize on an existing record that is PENDING returns the stored
\* login artifact, on one that is CONNECTED returns no artifact; either way
\* it creates no handle and leaves the record and the handles as they were.
C6_InitializeIdempotent ==
  [][\A t \in Tenants :
       (/\ Invoked("initialize", t)
        /\ clients[t] # NoClient
        /\ clientStates[t] \in {PENDING, CONNECTED})
       => /\ last'.op = "initialize"
          /\ last'.ret = (IF clientStates[t] = PENDING THEN qrCodes[t] ELSE Null)
          /\ UNCHANGED <<clients, clientStates, qrCodes, handles, created,
                         calls>>]_vars

\* C6 witness: initialize just returned the outstanding artifact of a PENDING
\* record
C6_Witness ==
  \E t \in Tenants :
    /\ last.act = "InitializeCall" /\ last.user = t
    /\ last.state = PENDING
    /\ last.ret = qrCodes[t]
    /\ last.ret \in {QrUrl(h) : h \in Handles}
    /\ clients[t] # NoClient

\* C7: no step of stopSession touches the durable login data, so data that
\* exists when stop runs still exists when it completes; when deleteSession
\* returns, the tenant's data does not exist.
C7_StopKeepsDeleteErases ==
  [][\A t \in Tenants :
       /\ StopSessionStep(t) => sessionFiles' = sessionFiles
       /\ Invoked("deleteSession", t) => ~sessionFiles'[t]]_vars

\* C7 witness: deleteSession returned for a tenant that had a handle (whose
\* login data the driver had written), and the data is gone
C7_Witness ==
  \E t \in Tenants :
    /\ last.act = "DeleteSessionCall" /\ last.user = t
    /\ last.client # NoClient
    /\ ~sessionFiles[t]

\* C8: when deleteSession has returned, the registry holds no handle, state
\* or artifact for the tenant and a status query answers NOT_FOUND.
C8_DeleteRemovesRecord ==
  \A t \in Tenants :
    (last.act = "DeleteSessionCall" /\ last.user = t)
      => NoRecord(t) /\ GetClientStatus(t, TRUE) = "NOT_FOUND"

\* C9: reinitialize on a CONNECTED tenant returns at once with no artifact
\* and leaves the record and its handle untouched (no logout, no destroy).
C9_ReinitializeConnectedNoOp ==
  [][\A t \in Tenants :
       (Invoked("reinitialize", t) /\ clientStates[t] = CONNECTED)
       => /\ last'.op = "reinitialize"
          /\ last'.ret = Null
          /\ UNCHANGED <<clients, clientStates, qrCodes, handles, calls>>]_vars

\* C10: when the wait times out on a record that is INITIALIZING, the call
\* fails with the timeout error, destroy has been invoked on the registered
\* handle, the record is gone and a status query answers NOT_FOUND.
C10_TimeoutEvictsInitializing ==
  [][\A t \in Tenants :
       (/\ last'.act = "WaitTimeout" /\ last'.user = t
        /\ clientStates[t] = INITIALIZING)
       => /\ last'.ret = "TIMEOUT"
          /\ NoRecord(t)'
          /\ GetClientStatus(t, TRUE)' = "NOT_FOUND"
          /\ clients[t] # NoClient
               => handles'[clients[t]].destroyCalls >= 1]_vars

\* C10 witness: a wait on an INITIALIZING record just timed out and evicted it
C10_Witness ==
  \E t \in Tenants :
    /\ last.act = "WaitTimeout" /\ last.user = t
    /\ last.ret = "TIMEOUT"
    /\ last.state = INITIALIZING
    /\ last.client # NoClient
    /\ handles[last.client].destroyCalls >= 1
    /\ NoRecord(t)

\* C11: when the wait times out on a record that is PENDING, the call fails
\* with the timeout error and nothing is evicted: the handle, the state
\* PENDING, the login artifact and the handles stay exactly as they were.
C11_TimeoutKeepsPending ==
  [][\A t \in Tenants :
       (/\ last'.act = "WaitTimeout" /\ last'.user = t
        /\ clientStates[t] = PENDING)
       => /\ last'.ret = "TIMEOUT"
          /\ UNCHANGED <<clients, clientStates, qrCodes, handles>>]_vars

\* C11 witness: a wait just timed out on a PENDING record, which still has
\* its undestroyed handle and its artifact
C11_Witness ==
  \E t \in Tenants :
    /\ last.act = "WaitTimeout" /\ last.user = t
    /\ last.ret = "TIMEOUT"
    /\ last.state = PENDING
    /\ clientStates[t] = PENDING
    /\ clients[t] # NoClient
    /\ clients[t] = last.client
    /\ handles[clients[t]].destroyCalls = 0
    /\ qrCodes[t] \in {QrUrl(h) : h \in Handles}

\* C12: when a poll of the wait runs within the budget and finds that the
\* tenant's handle entry has disappeared, the call fails with the not-found
\* error and the step creates or modifies no record and no handle.
C12_WaitFailsNotFoundWhenRecordGone ==
  [][\A t \in Tenants :
       (/\ last'.act = "WaitPoll" /\ last'.user = t
        /\ clients[t] = NoClient)
       => /\ last'.ret = "NOT_FOUND"
          /\ UNCHANGED <<clients, clientStates, qrCodes, handles, created>>]_vars

\* C12 witness: a call that was waiting on a registered handle just polled,
\* found the entry gone and failed with not-found
C12_Witness ==
  \E t \in Tenants :
    /\ last.act = "WaitPoll" /\ last.user = t
    /\ last.op = "ensureClientInitialized"
    /\ last.ret = "NOT_FOUND"
    /\ clients[t] = NoClient
    /\ created >= 1

\* C13: when a poll of the wait runs within the budget and finds the tenant's
\* record DISCONNECTED, the call fails with the unavailable error; no call of
\* ensureClientInitialized resolves with a handle while the state is
\* DISCONNECTED.
C13_WaitFailsUnavailableWhenDisconnected ==
  [][\A t \in Tenants :
       /\ (/\ last'.act = "WaitPoll" /\ last'.user = t
           /\ clients[t] # NoClient
           /\ clientStates[t] = DISCONNECTED)
          => last'.ret = "UNAVAILABLE"
       /\ (/\ last'.op = "ensureClientInitialized" /\ last'.user = t
           /\ clientStates[t] = DISCONNECTED)
          => last'.ret # "client"]_vars

\* C13 witness: a waiting call just polled a DISCONNECTED record whose handle
\* was registered and failed with unavailable
C13_Witness ==
  \E t \in Tenants :
    /\ last.act = "WaitPoll" /\ last.user = t
    /\ last.ret = "UNAVAILABLE"
    /\ last.state = DISCONNECTED
    /\ last.client # NoClient

\* C14: whenever ensureClientInitialized resolves, the handle it hands out is
\* the one registered for the tenant (never an absent one) and the tenant's
\* state at that moment is CONNECTED or PENDING, never INITIALIZING or
\* DISCONNECTED.
C14_EnsureResolvesWithRegisteredHandle ==
  \A t \in Tenants :
    (/\ last.op = "ensureClientInitialized" /\ last.user = t
     /\ last.ret = "client")
    => /\ last.client # NoClient
       /\ last.client = clients[t]
       /\ last.state \in {CONNECTED, PENDING}
       /\ clientStates[t] = last.state

\* C14 witness: a call that had to wait just resolved with the registered
\* handle of a CONNECTED tenant
C14_Witness ==
  \E t \in Tenants :
    /\ last.op = "ensureClientInitialized" /\ last.user = t
    /\ last.act = "WaitPoll"
    /\ last.ret = "client"
    /\ last.client = clients[t]
    /\ clientStates[t] = CONNECTED

\* a change of a record's state from a to b that the lifecycle table allows:
\* init puts any record in INITIALIZING, the login code moves INITIALIZING to
\* PENDING, ready moves INITIALIZING or PENDING to CONNECTED, a disconnect or
\* stop moves a live state to DISCONNECTED, and a record may be removed
LifecycleTransition(a, b) ==
  \/ b = INITIALIZING
  \/ a = INITIALIZING /\ b = PENDING
  \/ a \in {INITIALIZING, PENDING} /\ b = CONNECTED
  \/ a \in {INITIALIZING, PENDING, CONNECTED} /\ b = DISCONNECTED
  \/ b = Undefined

\* C15: every change of a tenant's state is a transition of the lifecycle
\* table; in particular never CONNECTED or DISCONNECTED to PENDING, nor
\* DISCONNECTED to CONNECTED.  (Stated for runs in which a single handle has
\* been created, so that no second handle's events are involved.)
C15_OnlyLifecycleTransitions ==
  [][\A t \in Tenants :
       (created' = 1 /\ clientStates'[t] # clientStates[t])
         => LifecycleTransition(clientStates[t], clientStates'[t])]_vars

\* C16: when the driver has emitted auth-failure for a tenant in INITIALIZING
\* or PENDING, the tenant has no handle, state or artifact entry, and the next
\* step leaves it so unless it creates a handle for a new init.
C16_AuthFailureEvictsUntilNextInit ==
  [][\A t \in Tenants :
       (/\ last.act = "DriverAuthFailure" /\ last.user = t
        /\ last.state \in {INITIALIZING, PENDING})
       => /\ NoRecord(t)
          /\ created' = created => NoRecord(t)']_vars

\* this step runs a driver event handler (or a poll that goes on waiting):
\* no request arrives and no call moves
DriverStep == issued' = issued /\ calls' = calls

\* C17: a driver event handled for a tenant that has no record changes no
\* handle, state or artifact entry.  (Stated for runs in which a single
\* handle has been created: the event comes from the evicted record's own
\* handle.)
C17_LateDriverEventIgnored ==
  [][\A t \in Tenants :
       (created = 1 /\ DriverStep /\ NoRecord(t)) => UNCHANGED registry]_vars

\* C18: once the only handle of a tenant has emitted ready (after its login
\* code or not), the tenant is not PENDING with a login code.
C18_ReadyAfterQrEndsConnected ==
  \A t \in Tenants :
    (/\ created = 1
     /\ handles[1].user = t
     /\ handles[1].driver = "ready")
    => ~(clientStates[t] = PENDING /\ qrCodes[t] \notin {Null, Undefined})

\* C19: init was issued, then stop, and stop has completed (state
\* DISCONNECTED, handle destroyed); when init's continuation then completes
\* it leaves the state DISCONNECTED and changes neither the handle entry nor
\* the handles.
C19_StopAfterInitStaysStopped ==
  [][\A t \in Tenants :
       (/\ issued = 2 /\ created = 1
        /\ last.act = "StopResume" /\ last.op = "stopSession" /\ last.user = t
        /\ last'.op = "initialize" /\ last'.user = t
        /\ last'.act \in {"InitializeConnected", "InitializeFailed"})
       => /\ clientStates'[t] = DISCONNECTED
          /\ clients'[t] = clients[t]
          /\ handles' = handles]_vars

\* C20: restartSession releases the tenant's handle and then creates a fresh
\* one that owns the record: while restartSession is connecting the handle it
\* created, the tenant's registered handle is that handle (or the record has
\* been removed), never the old, released one.
C20_RestartOwnsNewHandle ==
  \A t \in Tenants : \A c \in Calls :
    (/\ calls[c].op = "restartSession" /\ calls[c].user = t
     /\ calls[c].pc = "init_connect")
    => clients[t] \in {calls[c].client, NoClient}

(***************************************************************************)
(* Outbound dispatch: POST send-bulk, send-bulk-image and send-file.       *)
(*                                                                         *)
(* The request handler runs up to its first wait on the driver or a timer.  *)
(* The recipients of a bulk request are the list processPhoneNumbers        *)
(* returned, so they are distinct; recipient i is the i-th of the list.     *)
(* The driver answers a send with a message id of its own (here the number  *)
(* of the attempt) or with an error.                                        *)
(***************************************************************************)

(* ---------------------------- bounds ----------------------------------- *)
MaxRecipients == 21   \* recipients in the normalized list of one request
MaxFailures == 2      \* sends of one request that the driver lets fail

(* --------------------------- constants --------------------------------- *)
TextThreshold == 20     \* send-bulk: `phoneNumbers.length > 20`
ImageThreshold == 15    \* send-bulk-image: `phoneNumbers.length > 15`
DefaultDelayMs == 1000  \* `bulkMessageDto.delayMs || 1000`
MinDelayMs == 500       \* BulkMessageDto: @Min(500) delayMs

\* delayMs of a request: absent (0) or the least value the DTO admits
Delays == {0, MinDelayMs}

NoResponse == [status |-> "none"]

\* Math.ceil((phoneNumbers.length * (delayMs || 1000)) / 1000)
estimatedTimeSeconds(n, delayMs) ==
  LET d == IF delayMs = 0 THEN DefaultDelayMs ELSE delayMs
  IN (n * d + 999) \div 1000

\* one entry of `results`
Sent(i, id) == [number |-> i, success |-> TRUE, messageId |-> id, error |-> ""]
NotSent(i, err) == [number |-> i, success |-> FALSE, messageId |-> 0, error |-> err]

\* results.filter(r => r.success).length
successCount(results) ==
  Cardinality({i \in 1..Len(results) : results[i].success})

\* results.filter(r => !r.success).length
failureCount(results) ==
  Cardinality({i \in 1..Len(results) : ~results[i].success})

\* an entry of the dispatch log
Ev(ev, i) == [ev |-> ev, i |-> i]

\* a loop that waits before every send
DelayBeforeEverySend(results) == TRUE

\* sendBulkMessages: `if (results.length > 0)` the loop waits delayMs
DelayBeforeSend(results) == Len(results) > 0

\* sendBulkMessages / sendBulkMessagesWithImage from the top of the loop body
\* for the recipient after `results`, up to the next wait
LoopTop(o, results, events) ==
  LET i == Len(results) + 1 IN
  IF DelayBeforeSend(results)
  THEN [o EXCEPT !.pc = "delay", !.results = results,
                 !.events = Append(events, Ev("delay", i))]
  ELSE [o EXCEPT !.pc = "send", !.results = results,
                 !.events = Append(events, Ev("send", i))]

\* a threshold test that never goes to the background
BackgroundNever(kind, n) == FALSE

\* the controller answers 202 at once and lets the loop run on its own
Background(kind, n) ==
  IF kind = "send-bulk" THEN n > TextThreshold ELSE n > ImageThreshold

\* the 200 response of the blocking mode
Completed(n, results) ==
  [status |-> "OK", totalNumbers |-> n, estimatedTimeSeconds |-> 0,
   successCount |-> successCount(results),
   failureCount |-> failureCount(results),
   results |-> results]

\* the 202 response of the background mode
Accepted(n, delayMs) ==
  [status |-> "ACCEPTED", totalNumbers |-> n,
   estimatedTimeSeconds |-> estimatedTimeSeconds(n, delayMs),
   successCount |-> 0, failureCount |-> 0, results |-> <<>>]

\* `No valid phone numbers found`
Rejected ==
  [status |-> "BAD_REQUEST", totalNumbers |-> 0, estimatedTimeSeconds |-> 0,
   successCount |-> 0, failureCount |-> 0, results |-> <<>>]

\* the handler of a bulk request with n normalized recipients, up to its
\* first wait
BulkRequest(kind, n, delayMs, image) ==
  LET o == [kind |-> kind, n |-> n, delayMs |-> delayMs, image |-> image,
            background |-> Background(kind, n), pc |-> "done",
            results |-> <<>>, events |-> <<>>, failures |-> 0,
            response |-> NoResponse, staged |-> image, unlinkCalls |-> 0,
            unlinkLogged |-> FALSE]
  IN
  IF n = 0
  THEN [o EXCEPT !.response = Rejected, !.background = FALSE,
                 !.events = <<Ev("respond", 0)>>]
  ELSE IF Background(kind, n)
  THEN LoopTop([o EXCEPT !.response = Accepted(n, delayMs)], <<>>,
               <<Ev("respond", 0)>>)
  ELSE LoopTop(o, <<>>, <<>>)

\* POST send-bulk
SendBulkRequest(n, delayMs) ==
  /\ outbound = NoRequest
  /\ outbound' = BulkRequest("send-bulk", n, delayMs, FALSE)
  /\ UNCHANGED <<sessionVars, numberVars, messageVars, sendVars>>

\* POST send-bulk-image, with or without an uploaded image
SendBulkImageRequest(n, delayMs, image) ==
  /\ outbound = NoRequest
  /\ outbound' = BulkRequest("send-bulk-image", n, delayMs, image)
  /\ UNCHANGED <<sessionVars, numberVars, messageVars, sendVars>>

BulkKinds == {"send-bulk", "send-bulk-image"}

\* the timer of the loop fired: the send for the next recipient starts
DelayElapsed ==
  /\ outbound.kind \in BulkKinds
  /\ outbound.pc = "delay"
  /\ outbound' = [outbound EXCEPT !.pc = "send",
       !.events = Append(@, Ev("send", Len(outbound.results) + 1))]
  /\ UNCHANGED <<sessionVars, numberVars, messageVars, sendVars>>

\* the log entry of a send that settled with `entry`
Settled(entry) ==
  Ev(IF entry.success THEN "sent" ELSE "failed", entry.number)

\* a loop that gives up at the first failed send
AbortOnFailure(entry) == ~entry.success

\* the loop goes on after a failed send: the catch only records it
LoopAborts(entry) == FALSE

\* the send for recipient i settled with `entry`: results.push, then the next
\* iteration or the end of the loop
Pushed(o, entry) ==
  LET results == Append(o.results, entry)
      events == Append(o.events, Settled(entry))
  IN
  IF Len(results) < o.n /\ ~LoopAborts(entry)
  THEN LoopTop(o, results, events)
  ELSE IF o.background
  THEN [o EXCEPT !.pc = "done", !.results = results, !.events = events]
  ELSE [o EXCEPT !.pc = "done", !.results = results,
                 !.events = Append(events, Ev("respond", 0)),
                 !.response = Completed(o.n, results)]

\* sendMessage / sendFile resolved for the current recipient
SendSucceeds ==
  LET i == Len(outbound.results) + 1 IN
  /\ outbound.kind \in BulkKinds
  /\ outbound.pc = "send"
  /\ outbound' = Pushed(outbound, Sent(i, i))
  /\ UNCHANGED <<sessionVars, numberVars, messageVars, sendVars>>

\* sendMessage / sendFile threw for the current recipient
SendFails ==
  LET i == Len(outbound.results) + 1 IN
  /\ outbound.kind \in BulkKinds
  /\ outbound.pc = "send"
  /\ outbound.failures < MaxFailures
  /\ outbound' = Pushed([outbound EXCEPT !.failures = @ + 1],
                        NotSent(i, "Failed to send"))
  /\ UNCHANGED <<sessionVars, numberVars, messageVars, sendVars>>

\* the 200 / 500 response of send-file
FileResponse(entry) ==
  [status |-> IF entry.success THEN "OK" ELSE "INTERNAL_SERVER_ERROR",
   totalNumbers |-> 1, estimatedTimeSeconds |-> 0,
   successCount |-> IF entry.success THEN 1 ELSE 0,
   failureCount |-> IF entry.success THEN 0 ELSE 1,
   results |-> <<entry>>]

\* POST send-file: multer staged the upload, sendTemporaryFile starts sendFile
SendFileRequest ==
  /\ outbound = NoRequest
  /\ outbound' =
       [kind |-> "send-file", n |-> 1, delayMs |-> 0, image |-> FALSE,
        background |-> FALSE, pc |-> "send", results |-> <<>>,
        events |-> <<Ev("send", 1)>>, failures |-> 0,
        response |-> NoResponse, staged |-> TRUE, unlinkCalls |-> 0,
        unlinkLogged |-> FALSE]
  /\ UNCHANGED <<sessionVars, numberVars, messageVars, sendVars>>

\* deleteFileAsync: fs.unlink is requested, its callback runs later
deleteFileAsync(o) ==
  [o EXCEPT !.unlinkCalls = @ + 1, !.pc = "unlink",
            !.events = Append(@, Ev("unlink", 1))]

\* a catch block that rethrows without cleaning up
CatchLeavesFile(o) == [o EXCEPT !.pc = "done"]

\* sendTemporaryFile's catch block: clean up the file even if sending fails
CatchDeletesFile(o) == deleteFileAsync(o)

\* sendFile settled with `entry`
FileSent(o, entry) ==
  [o EXCEPT !.results = <<entry>>, !.events = Append(@, Settled(entry))]

\* sendTemporaryFile returned or threw; the controller answers
FileAnswered(o) ==
  [o EXCEPT !.events = Append(@, Ev("respond", 0)),
            !.response = FileResponse(o.results[1])]

\* sendFile resolved: the file's deletion is requested, the result returned
FileSendSucceeds ==
  /\ outbound.kind = "send-file"
  /\ outbound.pc = "send"
  /\ outbound' = FileAnswered(deleteFileAsync(FileSent(outbound, Sent(1, 1))))
  /\ UNCHANGED <<sessionVars, numberVars, messageVars, sendVars>>

\* sendFile threw: the catch block cleans up and rethrows
FileSendFails ==
  /\ outbound.kind = "send-file"
  /\ outbound.pc = "send"
  /\ outbound' = FileAnswered(CatchDeletesFile(
       FileSent([outbound EXCEPT !.failures = @ + 1],
                NotSent(1, "Failed to send file"))))
  /\ UNCHANGED <<sessionVars, numberVars, messageVars, sendVars>>

\* fs.unlink's callback without an error: the file is gone
UnlinkDone ==
  /\ outbound.kind = "send-file"
  /\ outbound.pc = "unlink"
  /\ outbound' = [outbound EXCEPT !.pc = "done", !.staged = FALSE]
  /\ UNCHANGED <<sessionVars, numberVars, messageVars, sendVars>>

\* fs.unlink's callback with an error: it is logged
UnlinkFails ==
  /\ outbound.kind = "send-file"
  /\ outbound.pc = "unlink"
  /\ outbound' = [outbound EXCEPT !.pc = "done", !.unlinkLogged = TRUE]
  /\ UNCHANGED <<sessionVars, numberVars, messageVars, sendVars>>

\* the session registry at rest, every user known
InitAtRest ==
  /\ Init
  /\ users = Tenants
  /\ sessionFiles = [t \in Tenants |-> FALSE]

NextDispatch ==
  \/ \E n \in 0..MaxRecipients, d \in Delays : SendBulkRequest(n, d)
  \/ \E n \in 0..MaxRecipients, d \in Delays, image \in BOOLEAN :
       SendBulkImageRequest(n, d, image)
  \/ DelayElapsed
  \/ SendSucceeds
  \/ SendFails
  \/ SendFileRequest
  \/ FileSendSucceeds
  \/ FileSendFails
  \/ UnlinkDone
  \/ UnlinkFails

SpecDispatch == InitAtRest /\ [][NextDispatch]_vars

(* ------------------------ dispatch: claims ----------------------------- *)

\* positions of the dispatch log that hold an entry of kind ev
LogOf(ev) ==
  {p \in 1..Len(outbound.events) : outbound.events[p].ev = ev}

\* a bulk request is being served or has been served
Bulk == outbound.kind \in {"send-bulk", "send-bulk-image"}

\* C21: a bulk dispatch over n recipients makes exactly n send attempts, in
\* list order, one at a time (a send that has started is the last entry of
\* the log or is followed at once by its own outcome), with exactly n-1
\* delays: none before the first send, one right before every later send,
\* also after a failed one.
C21_SequentialSendsWithDelays ==
  Bulk =>
    LET ev == outbound.events
        sends == LogOf("send")
        delays == LogOf("delay")
    IN
    /\ \A p \in sends :
         LET i == ev[p].i IN
         /\ i = Cardinality({q \in sends : q <= p})
         /\ p < Len(ev) => /\ ev[p + 1].ev \in {"sent", "failed"}
                           /\ ev[p + 1].i = i
         /\ i = 1 => {q \in delays : q < p} = {}
         /\ i > 1 => p > 1 /\ ev[p - 1] = Ev("delay", i)
    /\ \A p \in delays :
         /\ p > 1 /\ ev[p - 1].ev \in {"sent", "failed"}
         /\ p < Len(ev) => ev[p + 1] = Ev("send", ev[p].i)
    /\ (outbound.pc = "done" /\ outbound.n >= 1)
         => /\ Cardinality(sends) = outbound.n
            /\ Cardinality(delays) = outbound.n - 1

\* C21 witness: a dispatch over three recipients finished, its first send
\* having failed, with three sends and two delays in the log
C21_Witness ==
  /\ Bulk
  /\ outbound.pc = "done"
  /\ outbound.n = 3
  /\ ~outbound.results[1].success
  /\ Cardinality(LogOf("send")) = 3
  /\ Cardinality(LogOf("delay")) = 2

\* C22: one recipient's failure never aborts the rest: when the loop has
\* ended, the results have n entries in input order, entry i is a failure
\* with an error message iff send i failed and otherwise a success with the
\* message id the driver returned for send i, and the counts of the blocking
\* response add up to n.
C22_EveryRecipientHasItsOutcome ==
  (Bulk /\ outbound.pc = "done" /\ outbound.n >= 1) =>
    LET res == outbound.results IN
    /\ Len(res) = outbound.n
    /\ \A i \in 1..Len(res) :
         /\ res[i].number = i
         /\ ~res[i].success <=> \E p \in LogOf("failed") : outbound.events[p].i = i
         /\ res[i].success <=> \E p \in LogOf("sent") : outbound.events[p].i = i
         /\ ~res[i].success => res[i].error # ""
         /\ res[i].success => res[i].messageId = i
    /\ outbound.response.status = "OK"
         => /\ outbound.response.results = res
            /\ outbound.response.successCount
                 + outbound.response.failureCount = outbound.n

\* C22 witness: a blocking dispatch over three recipients finished with the
\* first two sends failed and the third delivered
C22_Witness ==
  /\ Bulk
  /\ outbound.pc = "done"
  /\ outbound.n = 3
  /\ outbound.response.status = "OK"
  /\ ~outbound.results[1].success
  /\ ~outbound.results[2].success
  /\ outbound.results[3].success
  /\ outbound.response.failureCount = 2
  /\ outbound.response.successCount = 1

\* C23: with more than 20 recipients on send-bulk, or more than 15 on
\* send-bulk-image, the caller has the accepted response, with the recipient
\* count and the time estimate, before the first send is attempted, and the
\* loop still makes all n attempts; otherwise there is no response until
\* every send attempt has completed, and then it carries the n results.
C23_ModeByRecipientCount ==
  (Bulk /\ outbound.n >= 1) =>
    LET o == outbound
        large == \/ o.kind = "send-bulk" /\ o.n > 20
                 \/ o.kind = "send-bulk-image" /\ o.n > 15
        d == IF o.delayMs = 0 THEN 1000 ELSE o.delayMs
        responds == LogOf("respond")
    IN
    IF large
    THEN /\ o.response.status = "ACCEPTED"
         /\ o.response.totalNumbers = o.n
         /\ o.response.estimatedTimeSeconds * 1000 >= o.n * d
         /\ (o.response.estimatedTimeSeconds - 1) * 1000 < o.n * d
         /\ responds = {1}
         /\ o.pc = "done" => Cardinality(LogOf("send")) = o.n
    ELSE /\ o.pc # "done" => o.response.status = "none" /\ responds = {}
         /\ o.pc = "done"
              => /\ o.response.status = "OK"
                 /\ Len(o.response.results) = o.n
                 /\ responds = {Len(o.events)}
                 /\ Cardinality(LogOf("sent") \cup LogOf("failed")) = o.n

\* C23 witness: the loop of an accepted 16-recipient image dispatch is at its
\* last send, after the 202 response
C23_Witness ==
  /\ outbound.kind = "send-bulk-image"
  /\ outbound.n = 16
  /\ outbound.response.status = "ACCEPTED"
  /\ outbound.response.totalNumbers = 16
  /\ outbound.pc = "done"
  /\ Len(outbound.results) = 16


\* C26: sendTemporaryFile requests the deletion of the staged file exactly
\* once, right after the send attempt settled, when the send succeeded and
\* when it failed, never before; what the caller gets is decided by the send
\* alone, also when the deletion failed and was logged.
C26_SendOnceDeleteAlways ==
  outbound.kind = "send-file" =>
    LET o == outbound
        settled == LogOf("sent") \cup LogOf("failed")
    IN
    /\ o.unlinkCalls = Cardinality(LogOf("unlink"))
    /\ Cardinality(LogOf("send")) = 1
    /\ IF o.results = <<>>
       THEN o.unlinkCalls = 0 /\ o.response = NoResponse
       ELSE /\ o.unlinkCalls = 1
            /\ \E p \in settled : LogOf("unlink") = {p + 1}
            /\ o.response = FileResponse(o.results[1])
            /\ o.response.status = "OK" <=> \E p \in LogOf("sent") : TRUE
    /\ o.unlinkLogged => o.pc = "done" /\ o.staged

\* C26 witness: the send failed, the deletion was requested once and failed
\* too, and the caller has the send's error
C26_Witness ==
  /\ outbound.kind = "send-file"
  /\ outbound.pc = "done"
  /\ ~outbound.results[1].success
  /\ outbound.unlinkCalls = 1
  /\ outbound.unlinkLogged
  /\ outbound.response.status = "INTERNAL_SERVER_ERROR"

\* C27: once the sending for a request that staged an attachment has
\* finished (and the deletion, where one was requested, did not fail), the
\* staged attachment is gone, for send-file and for send-bulk-image alike.
C27_NoStagedAttachmentRemains ==
  ( /\ outbound.kind \in {"send-file", "send-bulk-image"}
    /\ outbound.n >= 1
    /\ outbound.pc = "done"
    /\ ~outbound.unlinkLogged )
  => ~outbound.staged


(* --------------------- recipient normalization ------------------------- *)
\* Strings are TLA+ strings; s[i] is written SubSeq(s, i, i).

\* at most this many comma-separated entries in a request's numbers
MaxTokens == 3

\* the entries the requests are built from
Tokens ==
  {"+961 3 578 883", "3578883", "123", "9613578883", " 71 123 456",
   "+1 (555) 123-4567", "96135a8883", "", "1234567890123456",
   "03 578 883", "++9613578883", "800000000"}

\* the entries joined with commas
RECURSIVE join(_)
join(tokens) ==
  IF Len(tokens) = 1 THEN tokens[1]
  ELSE tokens[1] \o "," \o join(Tail(tokens))

\* the numbers strings of the requests
Inputs ==
  {join(tokens) : tokens \in UNION {[1..k -> Tokens] : k \in 1..MaxTokens}}

Digits == {"0", "1", "2", "3", "4", "5", "6", "7", "8", "9"}

\* the country codes hasCountryCode knows
CountryCodes ==
  {"1", "20", "33", "39", "44", "49", "52", "55", "60", "61", "62", "63",
   "65", "66", "81", "82", "84", "86", "90", "91", "92", "93", "94", "95",
   "98", "212", "213", "216", "218", "220", "221", "222", "223", "224",
   "225", "226", "227", "228", "229", "230", "231", "232", "233", "234",
   "235", "236", "237", "238", "239", "240", "241", "242", "243", "244",
   "245", "246", "248", "249", "250", "251", "252", "253", "254", "255",
   "256", "257", "258", "260", "261", "262", "263", "264", "265", "266",
   "267", "268", "269", "290", "291", "297", "298", "299", "350", "351",
   "352", "353", "354", "355", "356", "357", "358", "359", "370", "371",
   "372", "373", "374", "375", "376", "377", "378", "380", "381", "382",
   "383", "385", "386", "387", "389", "420", "421", "423", "500", "501",
   "502", "503", "504", "505", "506", "507", "508", "509", "590", "591",
   "592", "593", "594", "595", "596", "597", "598", "599", "670", "672",
   "673", "674", "675", "676", "677", "678", "679", "680", "681", "682",
   "683", "684", "685", "686", "687", "688", "689", "690", "691", "692",
   "850", "852", "853", "855", "856", "880", "886", "960", "961", "962",
   "963", "964", "965", "966", "967", "968", "970", "971", "972", "973",
   "974", "975", "976", "977", "992", "993", "994", "995", "996", "998"}

\* String.prototype.startsWith
startsWith(s, prefix) ==
  /\ Len(s) >= Len(prefix)
  /\ SubSeq(s, 1, Len(prefix)) = prefix

\* hasCountryCode: the number starts with one of the known codes
hasCountryCode(number) ==
  \E code \in CountryCodes : startsWith(number, code)

\* String.prototype.split with a one-character separator
RECURSIVE split(_, _)
split(s, sep) ==
  LET at == {i \in 1..Len(s) : SubSeq(s, i, i) = sep} IN
  IF at = {} THEN <<s>>
  ELSE LET i == CHOOSE i \in at : \A j \in at : i <= j IN
       <<SubSeq(s, 1, i - 1)>> \o split(SubSeq(s, i + 1, Len(s)), sep)

\* String.prototype.trim
RECURSIVE trim(_)
trim(s) ==
  IF Len(s) > 0 /\ SubSeq(s, 1, 1) = " " THEN trim(SubSeq(s, 2, Len(s)))
  ELSE IF Len(s) > 0 /\ SubSeq(s, Len(s), Len(s)) = " "
  THEN trim(SubSeq(s, 1, Len(s) - 1))
  ELSE s

\* num.replace(/[\s\-\(\)]/g, '')
RECURSIVE removeFormatting(_)
removeFormatting(s) ==
  IF Len(s) = 0 THEN ""
  ELSE IF SubSeq(s, 1, 1) \in {" ", "-", "(", ")"}
  THEN removeFormatting(SubSeq(s, 2, Len(s)))
  ELSE SubSeq(s, 1, 1) \o removeFormatting(SubSeq(s, 2, Len(s)))

\* the 961 prefix for a number without a country code that starts with 3 or 7
LebanesePrefix(cleaned) ==
  IF ~hasCountryCode(cleaned) /\ Len(cleaned) > 0
     /\ SubSeq(cleaned, 1, 1) \in {"3", "7"}
  THEN "961" \o cleaned
  ELSE cleaned

\* the map callback of processPhoneNumbers
clean(num) ==
  LET cleaned == removeFormatting(num)
      unsigned == IF startsWith(cleaned, "+")
                  THEN SubSeq(cleaned, 2, Len(cleaned))
                  ELSE cleaned
  IN LebanesePrefix(unsigned)

\* /^\d{9,15}$/
NineToFifteenDigits(num) ==
  /\ Len(num) >= 9
  /\ Len(num) <= 15
  /\ \A i \in 1..Len(num) : SubSeq(num, i, i) \in Digits

\* the final filter of processPhoneNumbers
valid(num) == NineToFifteenDigits(num) /\ hasCountryCode(num)

\* a list left as it is
KeepDuplicates(numbers) == numbers

\* [...new Set(numbers)]: the first occurrence of every number, in order
RECURSIVE unique(_)
unique(numbers) ==
  IF numbers = <<>> THEN <<>>
  ELSE LET front == unique(SubSeq(numbers, 1, Len(numbers) - 1))
           num == numbers[Len(numbers)]
       IN IF \E i \in 1..Len(front) : front[i] = num THEN front
          ELSE Append(front, num)

\* the filter callback num => num.length > 0
NotEmpty(num) == Len(num) > 0

processPhoneNumbers(s) ==
  LET parts == split(s, ",")
      trimmed == [i \in 1..Len(parts) |-> trim(parts[i])]
      present == SelectSeq(trimmed, NotEmpty)
      numbers == SelectSeq([i \in 1..Len(present) |-> clean(present[i])], valid)
      uniqueNumbers == unique(numbers)
  IN [i \in 1..Len(uniqueNumbers) |-> uniqueNumbers[i] \o "@c.us"]

\* POST send-bulk with the numbers string of the request body
SendBulkNumbers(delayMs) ==
  /\ outbound = NoRequest
  /\ phoneNumbers' = processPhoneNumbers(numbersString)
  /\ outbound' = BulkRequest("send-bulk", Len(phoneNumbers'), delayMs, FALSE)
  /\ UNCHANGED <<sessionVars, numbersString, messageVars, sendVars>>

\* a request with some numbers string arrives at the service at rest
InitNumbers ==
  /\ InitSessions
  /\ users = Tenants
  /\ sessionFiles = [t \in Tenants |-> FALSE]
  /\ outbound = NoRequest
  /\ dispatches = NoDispatches
  /\ delivery = NoDelivery
  /\ numbersString \in Inputs
  /\ phoneNumbers = <<>>
  /\ msg = NoMessage
  /\ mediaOptions = NoOptions
  /\ mapped = Unmapped
  /\ tempFile = NoFile

NextNumbers ==
  \/ \E d \in Delays : SendBulkNumbers(d)
  \/ DelayElapsed
  \/ SendSucceeds
  \/ SendFails

SpecNumbers == InitNumbers /\ [][NextNumbers]_vars

\* the numbers string of the request has been normalized
Normalized == outbound # NoRequest

\* C24: the request "+961 3 578 883" is dispatched to "9613578883@c.us",
\* the request "3578883" to the same Lebanon-prefixed recipient, and the
\* request "123" to nobody.
C24_NormalizationExamples ==
  Normalized =>
    /\ numbersString = "+961 3 578 883"
         => phoneNumbers = <<"9613578883@c.us">>
    /\ numbersString = "3578883" => phoneNumbers = <<"9613578883@c.us">>
    /\ numbersString = "123" => phoneNumbers = <<>>

\* C25: whatever the numbers string, the dispatch list has no duplicates,
\* every entry is 9 to 15 digits that begin with a known country code,
\* followed by "@c.us", and only the entries of the list are sent to or
\* reported: n is the length of the list and a finished loop has one result
\* per entry.
C25_DispatchListIsCanonical ==
  Normalized =>
    /\ \A i, j \in 1..Len(phoneNumbers) :
         phoneNumbers[i] = phoneNumbers[j] => i = j
    /\ \A i \in 1..Len(phoneNumbers) :
         LET entry == phoneNumbers[i] IN
         /\ Len(entry) >= 9 + 5
         /\ Len(entry) <= 15 + 5
         /\ SubSeq(entry, Len(entry) - 4, Len(entry)) = "@c.us"
         /\ \A k \in 1..(Len(entry) - 5) : SubSeq(entry, k, k) \in Digits
         /\ \E code \in CountryCodes :
              SubSeq(entry, 1, Len(code)) = code
    /\ outbound.n = Len(phoneNumbers)
    /\ Len(outbound.results) <= Len(phoneNumbers)
    /\ outbound.pc = "done" /\ outbound.n >= 1
         => Len(outbound.results) = Len(phoneNumbers)

\* C25 witness: a request naming the same recipient twice, with an entry
\* that cannot be normalized between them, was dispatched to one recipient
C25_Witness ==
  /\ numbersString = "+961 3 578 883,96135a8883,9613578883"
  /\ phoneNumbers = <<"9613578883@c.us">>
  /\ outbound.pc = "done"
  /\ Len(outbound.results) = 1


(* ------------------------- inbound media ------------------------------- *)

\* msg.type of the fetched messages
MessageTypes ==
  {"chat", "image", "video", "audio", "ptt", "document", "sticker"}

\* the fetched messages: the driver reports hasMedia only for messages that
\* carry a file, never for a text message
Messages ==
  {m \in [type : MessageTypes, hasMedia : BOOLEAN] :
     m.type = "chat" => ~m.hasMedia}

\* what msg.downloadMedia and createTemporaryMediaUrl can do
Downloads == {"media", "undefined", "throws", "write-throws"}

\* a filter that lets every type through
IncludeAlways(messageType, options) == TRUE

shouldIncludeMedia(messageType, options) ==
  IF options.includeMedia THEN TRUE
  ELSE CASE messageType = "image" -> options.includeImages
         [] messageType = "video" -> options.includeVideos
         [] messageType \in {"audio", "ptt"} -> options.includeAudio
         [] OTHER -> FALSE

\* the guard of the media branch: some option is set
AnyOption(options) ==
  \/ options.includeMedia
  \/ options.includeImages
  \/ options.includeVideos
  \/ options.includeAudio

baseMessage(m) == [pc |-> "done", type |-> m.type, media |-> NoMedia]

\* hours a media file is documented to be kept
RetentionHours == 1

\* hours of a file's life that are followed
MaxAge == 2

\* createTemporaryMediaUrl: fs.writeFileSync put the media under uploads/temp
createTemporaryMediaUrl == [stored |-> TRUE, age |-> 0, answer |-> "none"]

\* the map callback up to its first await
MapMessage ==
  /\ mapped = Unmapped
  /\ msg # NoMessage
  /\ mapped' = IF AnyOption(mediaOptions) /\ msg.hasMedia
                THEN [pc |-> "download", type |-> msg.type, media |-> NoMedia]
                ELSE baseMessage(msg)
  /\ UNCHANGED <<sessionVars, sendVars, outbound, numberVars, msg, mediaOptions,
                 tempFile>>

\* downloadMedia settled: the media object is attached, or the base message
\* is returned
DownloadSettles(download) ==
  LET include ==
        download = "media" /\ shouldIncludeMedia(msg.type, mediaOptions)
  IN
  /\ mapped.pc = "download"
  /\ mapped' =
       IF include
       THEN [baseMessage(msg) EXCEPT
               !.media = [hasMedia |-> TRUE, type |-> msg.type]]
       ELSE baseMessage(msg)
  /\ tempFile' = IF include THEN createTemporaryMediaUrl ELSE tempFile
  /\ UNCHANGED <<sessionVars, sendVars, outbound, numberVars, msg, mediaOptions>>

\* an hour goes by; nothing in the service runs on a schedule
HourPasses ==
  /\ tempFile.stored
  /\ tempFile.age < MaxAge
  /\ tempFile' = [tempFile EXCEPT !.age = @ + 1, !.answer = "none"]
  /\ UNCHANGED <<sessionVars, sendVars, outbound, numberVars, msg, mediaOptions, mapped>>

\* serveMediaFile: null when the file does not exist, else its stream
serveMediaFile(file) == IF file.stored THEN "OK" ELSE "NOT_FOUND"

\* GET media/:type/:filename for the url of the mapped message
ServeMedia ==
  /\ mapped.pc = "done"
  /\ mapped.media # NoMedia
  /\ tempFile' = [tempFile EXCEPT !.answer = serveMediaFile(tempFile)]
  /\ UNCHANGED <<sessionVars, sendVars, outbound, numberVars, msg, mediaOptions, mapped>>

\* getGroupMessages fetched some message, with some mediaOptions
InitMessages ==
  /\ InitSessions
  /\ users = Tenants
  /\ sessionFiles = [t \in Tenants |-> FALSE]
  /\ outbound = NoRequest
  /\ dispatches = NoDispatches
  /\ delivery = NoDelivery
  /\ numbersString = ""
  /\ phoneNumbers = <<>>
  /\ msg \in Messages
  /\ mediaOptions \in [includeMedia : BOOLEAN, includeImages : BOOLEAN,
                        includeVideos : BOOLEAN, includeAudio : BOOLEAN]
  /\ mapped = Unmapped
  /\ tempFile = NoFile

NextMessages ==
  \/ MapMessage
  \/ \E download \in Downloads : DownloadSettles(download)
  \/ HourPasses
  \/ ServeMedia

SpecMessages == InitMessages /\ [][NextMessages]_vars

\* C28: a mapped message carries a media object only if the message has
\* media and its type is enabled by the flags (includeMedia: every type,
\* includeImages: image, includeVideos: video, includeAudio: audio and ptt);
\* with includeImages alone only image messages carry one, and a text
\* message carries none.
C28_MediaOnlyWhenEnabled ==
  mapped.pc = "done" =>
    /\ mapped.type = msg.type
    /\ mapped.media # NoMedia =>
         /\ msg.hasMedia
         /\ mapped.media = [hasMedia |-> TRUE, type |-> msg.type]
         /\ \/ mediaOptions.includeMedia
            \/ msg.type = "image" /\ mediaOptions.includeImages
            \/ msg.type = "video" /\ mediaOptions.includeVideos
            \/ msg.type \in {"audio", "ptt"} /\ mediaOptions.includeAudio
    /\ ( /\ mediaOptions.includeImages
         /\ ~mediaOptions.includeMedia
         /\ ~mediaOptions.includeVideos
         /\ ~mediaOptions.includeAudio
         /\ msg.type # "image" ) => mapped.media = NoMedia
    /\ msg.type = "chat" => mapped.media = NoMedia

\* C28 witness: with includeImages alone, an image message was mapped with
\* its media object
C28_Witness ==
  /\ mapped.pc = "done"
  /\ msg = [type |-> "image", hasMedia |-> TRUE]
  /\ mediaOptions = [includeMedia |-> FALSE, includeImages |-> TRUE,
                     includeVideos |-> FALSE, includeAudio |-> FALSE]
  /\ mapped.media = [hasMedia |-> TRUE, type |-> "image"]


(* ------------------- commands for absent tenants ----------------------- *)

\* the commands that take a tenant id and change sessions
TenantCommands ==
  {"initialize", "stopSession", "restartSession", "deleteSession",
   "reinitialize", "ensureClientInitialized"}

\* C29: a command invoked for a tenant id that names no user fails (with a
\* validation error; a not-found error is let through here) and leaves the
\* registry, the handles and the durable login data as they were.
C29_UnknownTenantTouchesNothing ==
  [][\A t \in Tenants, op \in TenantCommands :
       (Invoked(op, t) /\ ~validateUser(t))
         => /\ last'.ret \in {"BAD_REQUEST", "NOT_FOUND"}
            /\ UNCHANGED <<clients, clientStates, qrCodes, handles, created,
                           sessionFiles>>]_vars

\* C30: stopSession, restartSession and deleteSession invoked for a tenant
\* without a session record each fail with not-found and create no record
\* and no handle.
C30_NoRecordIsNotFound ==
  [][\A t \in Tenants,
        op \in {"stopSession", "restartSession", "deleteSession"} :
       (Invoked(op, t) /\ NoRecord(t))
         => /\ last'.ret = "NOT_FOUND"
            /\ NoRecord(t)'
            /\ created' = created]_vars


(* --------------------- restart of a stopped session -------------------- *)

\* a session that reached CONNECTED through handle 1 and was then stopped:
\* the handle is destroyed and still registered, the state is DISCONNECTED,
\* the login data is on disk
InitStopped ==
  /\ clients = [t \in Tenants |-> 1]
  /\ clientStates = [t \in Tenants |-> DISCONNECTED]
  /\ qrCodes = [t \in Tenants |-> Null]
  /\ sessionFiles = [t \in Tenants |-> TRUE]
  /\ created = 1
  /\ handles = [h \in Handles |->
       IF h = 1 THEN [user |-> 1, driver |-> "closed", destroyCalls |-> 1]
       ELSE [user |-> 0, driver |-> "none", destroyCalls |-> 0]]
  /\ pendingQr = {}
  /\ issued = 0
  /\ calls = [c \in Calls |-> Idle]
  /\ users = Tenants
  /\ last = Quiet
  /\ outbound = NoRequest
  /\ dispatches = NoDispatches
  /\ delivery = NoDelivery
  /\ numbersString = ""
  /\ phoneNumbers = <<>>
  /\ msg = NoMessage
  /\ mediaOptions = NoOptions
  /\ mapped = Unmapped
  /\ tempFile = NoFile

\* restart commands on the stopped session; the login data is valid
\* upstream, so the driver asks for no code and reports no auth failure
NextRestart ==
  \/ \E c \in Calls, t \in Tenants : RestartSessionCall(c, t)
  \/ \E c \in Calls : StopResume(c)
  \/ \E c \in Calls : StopDestroyFails(c)
  \/ \E c \in Calls : InitializeConnected(c)
  \/ \E c \in Calls : InitializeFailed(c)
  \/ \E h \in Handles : DriverReady(h)
  \/ \E h \in Handles : DriverDisconnected(h)

SpecRestart == InitStopped /\ [][NextRestart]_vars

\* the state InitStopped starts from, as the lifecycle reaches it
StoppedAfterConnected ==
  /\ clients[1] = 1
  /\ clientStates[1] = DISCONNECTED
  /\ qrCodes[1] = Null
  /\ sessionFiles[1]
  /\ created = 1
  /\ handles[1] = [user |-> 1, driver |-> "closed", destroyCalls |-> 1]
  /\ pendingQr = {}
  /\ calls = [c \in Calls |-> Idle]
  /\ users = Tenants

\* C31: after one restart of a session that had reached CONNECTED and was
\* stopped, the durable login data is still there; a restart that returned
\* normally has registered a newly created handle and returned no login
\* artifact; and once the driver has answered the new connect with ready,
\* the record is CONNECTED on the new handle with no login artifact stored.
C31_RestartReconnectsWithoutArtifact ==
  \A t \in Tenants :
    issued = 1 =>
      /\ sessionFiles[t]
      /\ (last.op = "restartSession" /\ last.user = t /\ last.ret = Null)
           => /\ created = 2
              /\ clients[t] = 2
              /\ handles[2].user = t
      /\ (created = 2 /\ handles[2].driver = "ready")
           => /\ clients[t] = 2
              /\ clientStates[t] = CONNECTED
              /\ qrCodes[t] = Null

\* C31 witness: the restart has returned without an artifact and the new
\* handle is ready
C31_Witness ==
  /\ issued = 1
  /\ last.op = "restartSession"
  /\ last.ret = Null
  /\ handles[1].driver = "closed"
  /\ handles[2].driver = "ready"
  /\ clients[1] = 2
  /\ clientStates[1] = CONNECTED
  /\ qrCodes[1] = Null
  /\ sessionFiles[1]


\* C32: a media file written while the history was retrieved is kept for
\* the retention window and is gone, so that a GET on its url is answered
\* not found, once the window is over.
C32_MediaFilePurgedAfterRetention ==
  tempFile.age > RetentionHours =>
    /\ ~tempFile.stored
    /\ tempFile.answer # "OK"


(* ------------------- lifecycle: further claims ------------------------- *)

\* a deleteSession call for tenant t whose destroy() has not completed
DeleteReleasing(t) ==
  {c \in Calls : /\ calls[c].op = "deleteSession"
                 /\ calls[c].user = t
                 /\ calls[c].pc = "stop_await"}

\* C33: deleteSession stops before it erases: at the step that erases the
\* tenant's durable login data, and at the step at which deleteSession
\* returns to its caller, no release started by that delete is still
\* awaiting the driver.
C33_DeleteErasesAfterRelease ==
  [][\A t \in Tenants :
       ( \/ sessionFiles[t] /\ ~sessionFiles'[t]
         \/ last'.op = "deleteSession" /\ last'.user = t /\ last'.ret = "ok" )
       => DeleteReleasing(t)' = {}]_vars

\* C34: reinitialize on a PENDING tenant logs the handle out, evicts the
\* record and runs a fresh init: when the call returns from that init, the
\* record holds the handle the call created, every other handle of the tenant
\* has been released, and the artifact stored and the one returned are not
\* an older handle's.  (Stated for runs of an initialize followed by the
\* reinitialize, with no other command.)
C34_ReinitializePendingStartsAfresh ==
  [][\A c \in Calls :
       LET r == calls[c]
           t == r.user
           fresh == {Null, Undefined, QrUrl(r.client)}
       IN
       ( /\ issued = 2
         /\ r.op = "reinitialize" /\ r.phase = 1 /\ r.pc = "init_connect"
         /\ last'.op = "reinitialize" /\ last'.act = "InitializeConnected"
         /\ calls'[c] = Idle )
       => /\ clients'[t] = r.client
          /\ \A h \in HandlesOf(t) \ {r.client} : handles'[h].destroyCalls >= 1
          /\ qrCodes'[t] \in fresh
          /\ last'.ret \in fresh]_vars

\* C37: a poll of waitForClientReady that finds the tenant CONNECTED with a
\* handle resolves with that handle and leaves the record and the handles as
\* they were, whether its time budget has run out or not.
C37_WaitNeverEvictsConnected ==
  [][\A t \in Tenants :
       ( /\ last'.act \in {"WaitPoll", "WaitTimeout"} /\ last'.user = t
         /\ clientStates[t] = CONNECTED
         /\ clients[t] # NoClient )
       => /\ last'.ret = "client"
          /\ last'.client = clients[t]
          /\ UNCHANGED <<clients, clientStates, qrCodes, handles>>]_vars

\* no call and no qr handler is suspended
AtRest == calls = [c \in Calls |-> Idle] /\ pendingQr = {}

\* C38: whenever no handler is mid-execution, a tenant has a state entry
\* iff it has a handle entry, and an artifact entry only if it has a handle
\* entry.
C38_MapsDescribeOneRecord ==
  AtRest =>
    \A t \in Tenants :
      /\ clientStates[t] # Undefined <=> clients[t] # NoClient
      /\ qrCodes[t] # Undefined => clients[t] # NoClient

\* C39: when the connect of an initialize call fails or times out, the call
\* fails with the internal error, the tenant has no entry in any map, the
\* handle that call created has been released, and no other handle is
\* touched.
C39_FailedConnectReleasesOwnHandle ==
  [][\A c \in Calls :
       LET r == calls[c]
           t == r.user
       IN
       ( /\ r.pc = "init_connect"
         /\ last'.act = "InitializeFailed"
         /\ calls'[c] = Idle )
       => /\ last'.ret = "INTERNAL_SERVER_ERROR"
          /\ clients'[t] = NoClient
          /\ clientStates'[t] = Undefined
          /\ qrCodes'[t] = Undefined
          /\ handles'[r.client].destroyCalls >= 1
          /\ \A h \in Handles \ {r.client} : handles'[h] = handles[h]]_vars


(* --------------------------- progress ---------------------------------- *)

\* Timers fire: a poll whose budget has run out comes, however many polls
\* precede it.  The connect of every initialize settles: client.initialize()
\* resolves or rejects, or the 60 s timer of setupClient rejects.
Fairness ==
  \A c \in Calls :
    /\ WF_vars(WaitTimeout(c))
    /\ WF_vars(InitializeConnected(c) \/ InitializeFailed(c))

SpecLive == Spec /\ Fairness

\* C40: every ensureClientInitialized call settles in the end, whatever
\* driver events and other commands occur meanwhile.
C40_EnsureEventuallySettles ==
  \A c \in Calls :
    (calls[c].op = "ensureClientInitialized") ~> (calls[c] = Idle)

\* C40 witness: an ensureClientInitialized call that polled has been settled
\* by the timeout
C40_Witness ==
  /\ last.op = "ensureClientInitialized"
  /\ last.act = "WaitTimeout"
  /\ last.ret = "TIMEOUT"

(***************************************************************************)
(* sendMessage and sendFile on a connected client, for one recipient.      *)
(*                                                                         *)
(* The call runs up to its wait on the driver: getNumberId for an          *)
(* individual recipient, sendMessage, and getChatById for a group.  The    *)
(* driver answers getNumberId with an id, with null (the number is not     *)
(* registered) or with an error of its own.                                 *)
(***************************************************************************)

\* `cleanNumber.length < 10`
MinDigits == 10

\* String.prototype.includes
includes(s, sub) ==
  \E i \in 1..(Len(s) - Len(sub) + 1) : SubSeq(s, i, i + Len(sub) - 1) = sub

\* replace(/\D/g, '')
RECURSIVE digitsOnly(_)
digitsOnly(s) ==
  IF Len(s) = 0 THEN ""
  ELSE IF SubSeq(s, 1, 1) \in Digits
  THEN SubSeq(s, 1, 1) \o digitsOnly(SubSeq(s, 2, Len(s)))
  ELSE digitsOnly(SubSeq(s, 2, Len(s)))

\* String.prototype.replace with a string pattern: the first occurrence only
replace(s, sub, by) ==
  LET at == {i \in 1..(Len(s) - Len(sub) + 1) :
               SubSeq(s, i, i + Len(sub) - 1) = sub}
  IN IF at = {} THEN s
     ELSE LET i == CHOOSE i \in at : \A j \in at : i <= j IN
          SubSeq(s, 1, i - 1) \o by \o SubSeq(s, i + Len(sub), Len(s))

Formatted(id) == [ok |-> TRUE, id |-> id, error |-> ""]
Thrown(message) == [ok |-> FALSE, id |-> "", error |-> message]

\* formatWhatsAppId / formatGroupId with their suffix and the name they use
\* in their messages
formatId(to, suffix, required, invalid) ==
  IF to = "" THEN Thrown(required)
  ELSE IF includes(to, suffix)
  THEN Formatted(digitsOnly(split(to, "@")[1]) \o suffix)
  ELSE LET cleanNumber == digitsOnly(to) IN
       IF Len(cleanNumber) < MinDigits THEN Thrown(invalid)
       ELSE Formatted(cleanNumber \o suffix)

formatWhatsAppId(to) ==
  formatId(to, "@c.us",
    "Phone number is required and cannot be null or undefined",
    "Invalid phone number format. Phone number must have at least 10 digits.")

formatGroupId(groupId) ==
  formatId(groupId, "@g.us",
    "Group ID is required and cannot be null or undefined",
    "Invalid group ID format. Group ID must have at least 10 digits.")

\* the `to` of a call
Recipients ==
  {"", "12345", "1234567890", "+1 (234) 567-8901", "(961) 3-123456",
   "1234567890@c.us", "12 34@c.us", "1234567890@g.us", "12-34@g.us"}

\* the path of the file of a sendFile call
FilePath == "uploads/file.pdf"

\* the message of an error the driver raises
DriverError == "Evaluation failed"

NotRegistered(formattedTo) ==
  "The number " \o formattedTo \o " is not registered on WhatsApp"

\* the outer catch: the HttpException of the call
FailedToSend(d, message) ==
  [d EXCEPT !.pc = "done", !.ret = "ERROR",
            !.error = (IF d.op = "sendMessage" THEN "Failed to send message: "
                       ELSE "Failed to send file: ") \o message]

\* client.sendMessage(formattedTo, ...) is invoked
DriverSend(d, formattedTo) ==
  [d EXCEPT !.pc = "send", !.formattedTo = formattedTo,
            !.sendCalls = @ + 1, !.sentTo = formattedTo]

\* sendMessage / sendFile up to the first wait on the driver
sendStart(op, to, exists) ==
  LET isGroup == includes(to, "@g.us")
      d == [op |-> op, to |-> to, exists |-> exists, isGroup |-> isGroup,
            formattedTo |-> "", pc |-> "done", lookup |-> "none",
            asked |-> "", warned |-> "", sendCalls |-> 0, sentTo |-> "",
            groupName |-> FALSE, ret |-> "none", error |-> ""]
      f == IF isGroup THEN formatGroupId(to) ELSE formatWhatsAppId(to)
  IN
  IF op = "sendFile" /\ ~exists
  THEN FailedToSend(d, "File not found: " \o FilePath)
  ELSE IF ~f.ok THEN FailedToSend(d, f.error)
  ELSE IF isGroup THEN DriverSend(d, f.id)
  ELSE [d EXCEPT !.pc = "lookup", !.formattedTo = f.id,
                 !.asked = replace(f.id, "@c.us", "")]

SendMessageCall(to) ==
  /\ delivery = NoDelivery
  /\ delivery' = sendStart("sendMessage", to, TRUE)
  /\ UNCHANGED <<sessionVars, outbound, numberVars, messageVars, dispatches>>

SendFileCall(to, exists) ==
  /\ delivery = NoDelivery
  /\ delivery' = sendStart("sendFile", to, exists)
  /\ UNCHANGED <<sessionVars, outbound, numberVars, messageVars, dispatches>>

LookupOutcomes == {"registered", "null", "threw"}

\* getNumberId settled: the id it returned is used, or the inner catch logs
\* the validation error; the driver's send is invoked next
LookupSettles(outcome) ==
  /\ delivery # NoDelivery
  /\ delivery.pc = "lookup"
  /\ LET d == [delivery EXCEPT !.lookup = outcome] IN
     delivery' =
       IF outcome = "registered"
       THEN DriverSend(d, d.asked \o "@c.us")
       ELSE DriverSend([d EXCEPT !.warned =
                          IF outcome = "null" THEN NotRegistered(d.formattedTo)
                          ELSE DriverError],
                       d.formattedTo)
  /\ UNCHANGED <<sessionVars, outbound, numberVars, messageVars, dispatches>>

\* client.sendMessage settled
DriverSendSettles(ok) ==
  /\ delivery # NoDelivery
  /\ delivery.pc = "send"
  /\ delivery' =
       IF ~ok THEN FailedToSend(delivery, DriverError)
       ELSE IF delivery.isGroup THEN [delivery EXCEPT !.pc = "chat"]
       ELSE [delivery EXCEPT !.pc = "done", !.ret = "OK"]
  /\ UNCHANGED <<sessionVars, outbound, numberVars, messageVars, dispatches>>

\* getChatById settled: the call succeeds with or without the group's name
ChatSettles(ok) ==
  /\ delivery # NoDelivery
  /\ delivery.pc = "chat"
  /\ delivery' = [delivery EXCEPT !.pc = "done", !.ret = "OK",
                                  !.groupName = ok]
  /\ UNCHANGED <<sessionVars, outbound, numberVars, messageVars, dispatches>>

NextSend ==
  \/ \E to \in Recipients : SendMessageCall(to)
  \/ \E to \in Recipients, exists \in BOOLEAN : SendFileCall(to, exists)
  \/ \E outcome \in LookupOutcomes : LookupSettles(outcome)
  \/ \E ok \in BOOLEAN : DriverSendSettles(ok)
  \/ \E ok \in BOOLEAN : ChatSettles(ok)

SpecSend == InitAtRest /\ [][NextSend]_vars

\* C36: when getNumberId reports that an individual recipient is not
\* registered, the driver's send is never invoked for that recipient and the
\* call, once settled, has failed with an error whose message keeps the
\* "is not registered on WhatsApp" text.
C36_UnregisteredRecipientIsNotSent ==
  (delivery # NoDelivery /\ delivery.lookup = "null") =>
    /\ delivery.sendCalls = 0
    /\ delivery.pc = "done" =>
         /\ delivery.ret = "ERROR"
         /\ includes(delivery.error, "is not registered on WhatsApp")

(***************************************************************************)
(* Bulk requests of one tenant that overlap.                               *)
(*                                                                         *)
(* Every POST send-bulk runs its own sendBulkMessages loop on the tenant's  *)
(* client: the controller awaits the loop or, above the threshold, answers  *)
(* 202 and lets it run.  The server takes the next request while a loop     *)
(* waits on its timer or on the driver.                                     *)
(***************************************************************************)

\* sends that the driver lets fail, over all the loops of the tenant
MaxOverlapFailures == 1

\* recipients of a request: one, or just enough for the background mode
OverlapSizes == {1, TextThreshold + 1}

\* the loops that are in client.sendMessage
Sending ==
  {k \in Loops : dispatches[k] # NoRequest /\ dispatches[k].pc = "send"}

RECURSIVE failuresUpTo(_)
failuresUpTo(k) ==
  IF k = 0 THEN 0
  ELSE failuresUpTo(k - 1)
       + (IF dispatches[k] = NoRequest THEN 0 ELSE dispatches[k].failures)

\* POST send-bulk for the tenant, served in the next free slot
BulkArrives(k, n, delayMs) ==
  /\ dispatches[k] = NoRequest
  /\ \A j \in 1..(k - 1) : dispatches[j] # NoRequest
  /\ dispatches' =
       [dispatches EXCEPT ![k] = BulkRequest("send-bulk", n, delayMs, FALSE)]
  /\ UNCHANGED <<sessionVars, outbound, numberVars, messageVars, delivery>>

\* the timer of loop k fired: its send for the next recipient starts
LoopDelayElapsed(k) ==
  /\ dispatches[k] # NoRequest
  /\ dispatches[k].pc = "delay"
  /\ dispatches' = [dispatches EXCEPT ![k] = [@ EXCEPT !.pc = "send",
       !.events = Append(@, Ev("send", Len(dispatches[k].results) + 1))]]
  /\ UNCHANGED <<sessionVars, outbound, numberVars, messageVars, delivery>>

\* sendMessage resolved for the current recipient of loop k
LoopSendSucceeds(k) ==
  /\ k \in Sending
  /\ LET i == Len(dispatches[k].results) + 1 IN
     dispatches' = [dispatches EXCEPT ![k] = Pushed(@, Sent(i, i))]
  /\ UNCHANGED <<sessionVars, outbound, numberVars, messageVars, delivery>>

\* sendMessage threw for the current recipient of loop k
LoopSendFails(k) ==
  /\ k \in Sending
  /\ failuresUpTo(MaxLoops) < MaxOverlapFailures
  /\ LET i == Len(dispatches[k].results) + 1 IN
     dispatches' = [dispatches EXCEPT ![k] =
       Pushed([@ EXCEPT !.failures = @ + 1], NotSent(i, "Failed to send"))]
  /\ UNCHANGED <<sessionVars, outbound, numberVars, messageVars, delivery>>

NextOverlap ==
  \/ \E k \in Loops, n \in OverlapSizes, d \in Delays : BulkArrives(k, n, d)
  \/ \E k \in Loops : LoopDelayElapsed(k)
  \/ \E k \in Loops : LoopSendSucceeds(k)
  \/ \E k \in Loops : LoopSendFails(k)

SpecOverlap == InitAtRest /\ [][NextOverlap]_vars

\* C35: for one tenant at most one bulk-dispatch send is in flight at any
\* time, also when a second bulk request arrives while a dispatch of the
\* tenant is still running.
C35_OneSendInFlight == Cardinality(Sending) <= 1

====
